---- MODULE Spec2Model ----
(***************************************************************************)
(* Model of src/generate_descriptions.py: the load -> filter -> batch ->   *)
(* parallel fetch with retry -> merge -> checkpoint -> sorted save         *)
(* pipeline of glyph-party.                                                *)
(*                                                                         *)
(* A codepoint string such as "1F600" is the sequence of the values of its *)
(* hex digits, <<1,15,6,0,0>>: Python compares strings character by        *)
(* character and '0'..'9' < 'A'..'F', which is the order of digit values.  *)
(* A description map (a Python dict) is a function from codepoints to      *)
(* description texts. The program only copies the texts, it never looks    *)
(* inside them, so a text is modelled by where it came from: StoredText is *)
(* a text that was in descriptions.json when the run started,              *)
(* GeneratedText(b) a text of the response the remote gave for batch b of  *)
(* the run.                                                                *)
(***************************************************************************)
EXTENDS Integers, Sequences, FiniteSets, TLC

\* ------------------------------------------------------------------ bounds
\* Longest catalog (number of character records).
MaxCat == 3
\* Longest list of GlyphDescription items in one remote response.
MaxRespLen == 2
\* generate_parallel's batch_size, scaled down (main runs with the default 25).
BatchSize == 2
\* Largest max_workers of a run, scaled down (main runs with the default 5).
MaxPool == 2

\* ------------------------------------------------------- program constants
\* stop_after_attempt(5)
MaxAttempts == 5
\* wait_exponential(multiplier=1, min=2, max=60); exp_base defaults to 2
WaitMultiplier == 1
WaitMin == 2
WaitMax == 60
WaitExpBase == 2

\* ---------------------------------------------------------------- domains
CP_0041 == <<0, 0, 4, 1>>
CP_FFFF == <<15, 15, 15, 15>>
CP_1F600 == <<1, 15, 6, 0, 0>>
Codepoints == {CP_0041, CP_FFFF, CP_1F600}

\* Description texts, by origin.
StoredText == <<"stored">>
GeneratedText(b) == <<"generated", b>>
MaxBatches == (MaxCat + BatchSize - 1) \div BatchSize
Descs == {StoredText} \cup {GeneratedText(b) : b \in 1..MaxBatches}

EmptyMap == <<>>
\* All dicts with keys among the codepoints.
Maps == UNION {[S -> Descs] : S \in SUBSET Codepoints}
\* The dicts descriptions.json may hold when a run starts.
InitialMaps == {[k \in S |-> StoredText] : S \in SUBSET Codepoints}

SeqsUpTo(S, n) == UNION {[1..k -> S] : k \in 0..n}
\* A catalog record is identified by its "code" field; char, name and block
\* only feed the prompt text.
Catalogs == SeqsUpTo(Codepoints, MaxCat)
\* The GlyphDescription items the response for batch b may hold: the remote
\* is free to name any codepoint, whether or not the prompt asked for it.
Items(b) == [codepoint : Codepoints, description : {GeneratedText(b)}]
\* The validated GlyphDescriptionBatch.descriptions lists the remote may return.
Responses(b) == SeqsUpTo(Items(b), MaxRespLen)

Min(a, b) == IF a <= b THEN a ELSE b
Max(a, b) == IF a >= b THEN a ELSE b
Range(s) == {s[i] : i \in DOMAIN s}

\* ------------------------------------------------------------ the store
\* descriptions.json: absent, a valid JSON mapping, or a file that open(.., "w")
\* has truncated and json.dump has not (completely) written yet.
Absent == [kind |-> "absent", content |-> EmptyMap]
Truncated == [kind |-> "truncated", content |-> EmptyMap]
Valid(m) == [kind |-> "valid", content |-> m]
Stores == {Absent} \cup {Valid(m) : m \in InitialMaps}

VARIABLES
  hasKey,          \* GOOGLE_API_KEY is set in the environment
  catalogExists,   \* src/unicode-data.json exists
  catalog,         \* the "characters" list of the catalog file (codes)
  max_workers,     \* generate_parallel's max_workers
  disk,            \* descriptions.json
  pc,              \* position of the main thread
  loaded,          \* the map load_descriptions returned in this run
  descriptions,    \* the dict `descriptions` of main / generate_parallel
  characters_to_process,
  batches,         \* list of (start index, batch)
  status,          \* per batch: state of its future / worker
  attempt,         \* per batch: attempts made by the fetch in progress
                   \* (tenacity's retry_state.attempt_number, gone on return)
  waits,           \* per batch: backoff waits slept by the fetch in progress
  results,         \* per batch: process_batch's result["descriptions"]
  starts,          \* per batch: how many times a worker took it from the queue
  next,            \* position of executor.map's result iterator
  mergeIdx,        \* position of the merge loop
  remoteCalled,    \* a remote generate_content call was made in this run
  warnings,        \* batch indices named by a "No descriptions" warning
  finished,        \* the batches whose future has completed, in that order
  sorted_descriptions, \* save_sorted_descriptions' sorted items, in order
  checkpointWrites,\* completed json.dump calls of generate_parallel
  finalWrites      \* completed json.dump calls of save_sorted_descriptions

env == <<hasKey, catalogExists, catalog, max_workers>>
pool == <<status, attempt, waits, results, starts, finished>>
run == <<loaded, descriptions, characters_to_process, batches, next, mergeIdx,
         remoteCalled, warnings, sorted_descriptions, checkpointWrites,
         finalWrites>>
vars == <<env, disk, pc, pool, run>>

\* ------------------------------------------------------- pure functions
\* filter_characters_to_process: the records whose code is not a key of
\* descriptions, in catalog order.
\* (mutant) the membership test is dropped: every record is pending.
NotDescribed_NoFilter(codepoint, descs) == TRUE
NotDescribed(codepoint, descs) == codepoint \notin DOMAIN descs

\* (mutant) the pending records are collected last to first.
FilterCharactersToProcess_Reversed(characters, descs) ==
  LET kept == SelectSeq(characters, LAMBDA c : NotDescribed(c, descs))
  IN [i \in 1..Len(kept) |-> kept[Len(kept) + 1 - i]]

\* filter_characters_to_process: the records whose codepoint is not a key of
\* the loaded map, in catalog order.
FilterCharactersToProcess(characters, descs) ==
  SelectSeq(characters, LAMBDA c : NotDescribed(c, descs))

\* (mutant) the slices start one record early: characters[i - 1 : i + bs].
Partition_Overlap(chars, bs) ==
  [j \in 1..((Len(chars) + bs - 1) \div bs) |->
     [index |-> (j - 1) * bs,
      batch |-> SubSeq(chars, Max(1, (j - 1) * bs), Min(j * bs, Len(chars)))]]

\* (mutant) a last batch shorter than batch_size is not built.
NumBatches_Floor(n, bs) == n \div bs

\* generate_parallel's partition: for i in range(0, len, batch_size):
\* batches.append((i, characters_to_process[i : i + batch_size])).
NumBatches(n, bs) == (n + bs - 1) \div bs
Partition(chars, bs) ==
  [j \in 1..NumBatches(Len(chars), bs) |->
     [index |-> (j - 1) * bs,
      batch |-> SubSeq(chars, (j - 1) * bs + 1, Min(j * bs, Len(chars)))]]

\* process_batch: result[item.codepoint] = item.description for each item of
\* the response, in order (a later item with the same codepoint wins).
RECURSIVE ProcessBatchResult(_)
ProcessBatchResult(resp) ==
  IF resp = <<>> THEN EmptyMap
  ELSE LET n == Len(resp)
           head == ProcessBatchResult(SubSeq(resp, 1, n - 1))
           item == resp[n]
       IN [k \in DOMAIN head \cup {item.codepoint} |->
             IF k = item.codepoint THEN item.description ELSE head[k]]

\* (mutant) the result replaces the dict instead of being merged into it.
Update_Replace(d, r) == r

\* dict.update
Update(d, r) ==
  [k \in DOMAIN d \cup DOMAIN r |-> IF k \in DOMAIN r THEN r[k] ELSE d[k]]

\* (mutant) off by one: stops after the attempt following the last allowed.
StopAfterAttempt_OneMore(n) == n > MaxAttempts

\* tenacity's stop_after_attempt: attempt_number >= max_attempt_number.
StopAfterAttempt(n) == n >= MaxAttempts

\* (mutant) multiplier 2 and no lower clamp: 2, 4, 8, 16.
WaitExponential_Doubled(n) == Min(2 * WaitExpBase ^ (n - 1), WaitMax)

\* tenacity's wait_exponential, called with the number n of the attempt that
\* just failed: max(max(0, min), min(multiplier * exp_base ** (n - 1), max)).
WaitExponential(n) ==
  Max(Max(0, WaitMin), Min(WaitMultiplier * WaitExpBase ^ (n - 1), WaitMax))

\* Python's str < str on codepoint strings: the first differing character
\* decides, and a proper prefix is smaller.
RECURSIVE LexLess(_, _)
LexLess(a, b) ==
  IF a = <<>> THEN b # <<>>
  ELSE IF b = <<>> THEN FALSE
  ELSE IF Head(a) # Head(b) THEN Head(a) < Head(b)
  ELSE LexLess(Tail(a), Tail(b))

\* (mutant) the items are written in descending key order (reverse=True).
RECURSIVE SortedItems_Descending(_)
SortedItems_Descending(d) ==
  IF DOMAIN d = {} THEN <<>>
  ELSE LET k == CHOOSE x \in DOMAIN d :
                  \A y \in DOMAIN d \ {x} : LexLess(y, x)
       IN <<<<k, d[k]>>>> \o
          SortedItems_Descending([y \in DOMAIN d \ {k} |-> d[y]])

\* sorted(descriptions.items()): the (key, text) pairs in ascending order of
\* the key strings (the keys of a dict are distinct, so the key decides).
RECURSIVE SortedItems(_)
SortedItems(d) ==
  IF DOMAIN d = {} THEN <<>>
  ELSE LET k == CHOOSE x \in DOMAIN d :
                  \A y \in DOMAIN d \ {x} : LexLess(x, y)
       IN <<<<k, d[k]>>>> \o SortedItems([y \in DOMAIN d \ {k} |-> d[y]])

\* dict(items): the mapping a list of (key, text) pairs builds.
DictOf(items) ==
  [k \in {items[i][1] : i \in DOMAIN items} |->
     LET i == CHOOSE j \in DOMAIN items :
                /\ items[j][1] = k
                /\ \A l \in DOMAIN items : items[l][1] = k => l <= j
     IN items[i][2]]

\* (mutant) the early return of main is missing.
NothingToProcess_NoReturn(chars) == FALSE

\* `if not characters_to_process: return` in main.
NothingToProcess(chars) == chars = <<>>

\* ------------------------------------------------------------ the pool
BatchIds == DOMAIN batches
InFlight == {b \in BatchIds : status[b] \in {"running", "sleeping"}}
\* (mutant) one thread per work item, whatever max_workers is.
WorkerFree_Unbounded == TRUE

\* A ThreadPoolExecutor thread is free to take the next work item.
WorkerFree == Cardinality(InFlight) < max_workers
\* (mutant) nothing waits for the futures: shutdown(wait=False) and results
\* read without blocking.
Completed_NoWait(b) == TRUE

\* The future of batch b has finished: with a result, with an exception, or
\* cancelled before a worker took it.
Completed(b) == status[b] \in {"done", "failed", "cancelled"}
\* future.result() of executor.map's result iterator blocks until the future
\* has finished, then returns its result ...
ResultReady(b) == Completed(b) /\ status[b] # "failed"
\* ... or raises the RetryError of the batch.
ResultRaises(b) == Completed(b) /\ status[b] = "failed"
\* shutdown(wait=True) returns: the work queue is empty and no worker is busy.
PoolIdle == \A b \in BatchIds : Completed(b)

Terminal == {"no_key", "no_catalog", "nothing_to_do", "raised", "done", "killed"}

\* The state of a process that has not started yet.
FreshMemory ==
  /\ loaded = EmptyMap /\ descriptions = EmptyMap
  /\ characters_to_process = <<>> /\ batches = <<>>
  /\ status = <<>> /\ attempt = <<>> /\ waits = <<>> /\ results = <<>>
  /\ starts = <<>> /\ finished = <<>>
  /\ next = 0 /\ mergeIdx = 0 /\ remoteCalled = FALSE /\ warnings = {}
  /\ sorted_descriptions = <<>>
  /\ checkpointWrites = 0 /\ finalWrites = 0

Init ==
  /\ hasKey \in BOOLEAN
  /\ catalogExists \in BOOLEAN
  /\ catalog \in (IF catalogExists THEN Catalogs ELSE {<<>>})
  /\ max_workers \in 1..MaxPool
  /\ disk \in Stores
  /\ pc = "idle"
  /\ FreshMemory

\* The memory of a process that ended is gone.
ResetMemory ==
  /\ loaded' = EmptyMap /\ descriptions' = EmptyMap
  /\ characters_to_process' = <<>> /\ batches' = <<>>
  /\ status' = <<>> /\ attempt' = <<>> /\ waits' = <<>> /\ results' = <<>>
  /\ starts' = <<>> /\ finished' = <<>>
  /\ next' = 0 /\ mergeIdx' = 0 /\ remoteCalled' = FALSE /\ warnings' = {}
  /\ sorted_descriptions' = <<>>
  /\ checkpointWrites' = 0 /\ finalWrites' = 0

\* ---------------------------------------------------------- main thread
\* (mutant) main goes on when load_unicode_data returned no characters.
MainStartup_IgnoresCatalog ==
  /\ pc = "idle"
  /\ pc' = IF ~hasKey THEN "no_key" ELSE "load"
  /\ UNCHANGED <<env, disk, pool, run>>

\* main, lines 187-200: credential check, client, load_unicode_data.
MainStartup ==
  /\ pc = "idle"
  /\ pc' = IF ~hasKey THEN "no_key"
           ELSE IF ~catalogExists \/ catalog = <<>> THEN "no_catalog"
           ELSE "load"
  /\ UNCHANGED <<env, disk, pool, run>>

\* main, lines 202-208: load_descriptions and filter_characters_to_process.
\* json.load raises on a file that is not a complete JSON document.
LoadAndFilter ==
  /\ pc = "load"
  /\ IF disk.kind = "truncated"
     THEN /\ pc' = "raised"
          /\ UNCHANGED <<loaded, descriptions, characters_to_process>>
     ELSE /\ loaded' = disk.content
          /\ descriptions' = disk.content
          /\ characters_to_process' =
               FilterCharactersToProcess(catalog, disk.content)
          /\ pc' = IF NothingToProcess(characters_to_process')
                   THEN "nothing_to_do" ELSE "dispatch"
  /\ UNCHANGED <<env, disk, pool, batches, next, mergeIdx, remoteCalled,
                 warnings, sorted_descriptions, checkpointWrites, finalWrites>>

\* generate_parallel, lines 144-154: partition, then executor.map submits one
\* future per batch.
Dispatch ==
  /\ pc = "dispatch"
  /\ batches' = Partition(characters_to_process, BatchSize)
  /\ status' = [b \in DOMAIN batches' |-> "queued"]
  /\ attempt' = [b \in DOMAIN batches' |-> 0]
  /\ waits' = [b \in DOMAIN batches' |-> <<>>]
  /\ results' = [b \in DOMAIN batches' |-> EmptyMap]
  /\ starts' = [b \in DOMAIN batches' |-> 0]
  /\ finished' = <<>>
  /\ next' = 1
  /\ pc' = "collect"
  /\ UNCHANGED <<env, disk, loaded, descriptions, characters_to_process,
                 mergeIdx, remoteCalled, warnings, sorted_descriptions,
                 checkpointWrites, finalWrites>>

\* list(executor.map(...)): the result iterator takes the futures in batch
\* order. A result that raises cancels the futures not yet started (the
\* iterator's finally clause) and the exception leaves the with block.
Collect ==
  /\ pc = "collect"
  /\ next \in BatchIds
  /\ \/ /\ ResultReady(next)
        /\ next' = next + 1
        /\ UNCHANGED <<pc, status>>
     \/ /\ ResultRaises(next)
        /\ status' = [b \in BatchIds |->
                        IF status[b] = "queued" THEN "cancelled" ELSE status[b]]
        /\ pc' = "unwind"
        /\ UNCHANGED next
  /\ UNCHANGED <<env, disk, attempt, waits, results, starts, finished, loaded,
                 descriptions, characters_to_process, batches, mergeIdx, remoteCalled,
                 warnings, sorted_descriptions, checkpointWrites, finalWrites>>

\* ThreadPoolExecutor.__exit__ is shutdown(wait=True): the with block is left
\* once every work item has finished.
ExecutorExit ==
  /\ pc = "collect"
  /\ next = Len(batches) + 1
  /\ PoolIdle
  /\ mergeIdx' = 1
  /\ pc' = "merge"
  /\ UNCHANGED <<env, disk, pool, loaded, descriptions, characters_to_process,
                 batches, next, remoteCalled, warnings, sorted_descriptions,
                 checkpointWrites, finalWrites>>

\* (mutant) generate_parallel catches the RetryError and goes on to merge.
ExecutorExitRaising_Handled ==
  /\ pc = "unwind"
  /\ PoolIdle
  /\ mergeIdx' = 1
  /\ pc' = "merge"
  /\ UNCHANGED <<env, disk, pool, loaded, descriptions, characters_to_process,
                 batches, next, remoteCalled, warnings, sorted_descriptions,
                 checkpointWrites, finalWrites>>

\* The same exit with the RetryError in flight: it propagates out of
\* generate_parallel and main, which have no handler.
ExecutorExitRaising ==
  /\ pc = "unwind"
  /\ PoolIdle
  /\ pc' = "raised"
  /\ UNCHANGED <<env, disk, pool, run>>

\* (mutant) the results are taken as the futures complete (as_completed).
ResultOrder_AsCompleted == finished

\* list(executor.map(...)): the results list is in the order of the batches,
\* whatever the order in which the futures completed.
ResultOrder == [i \in BatchIds |-> i]

\* (mutant) the merge loop saves the map after every batch.
MergeStep_SavesEachBatch ==
  /\ pc = "merge"
  /\ mergeIdx \in BatchIds
  /\ LET b == ResultOrder[mergeIdx]
     IN IF results[b] # EmptyMap
        THEN /\ descriptions' = Update(descriptions, results[b])
             /\ UNCHANGED warnings
        ELSE /\ warnings' = warnings \cup {batches[b].index}
             /\ UNCHANGED descriptions
  /\ disk' = Valid(descriptions')
  /\ mergeIdx' = mergeIdx + 1
  /\ UNCHANGED <<env, pc, pool, loaded, characters_to_process, batches,
                 next, remoteCalled, sorted_descriptions, checkpointWrites,
                 finalWrites>>

\* generate_parallel, lines 160-166: one iteration of the merge loop.
MergeStep ==
  /\ pc = "merge"
  /\ mergeIdx \in BatchIds
  /\ LET b == ResultOrder[mergeIdx]
     IN IF results[b] # EmptyMap
        THEN /\ descriptions' = Update(descriptions, results[b])
             /\ UNCHANGED warnings
        ELSE /\ warnings' = warnings \cup {batches[b].index}
             /\ UNCHANGED descriptions
  /\ mergeIdx' = mergeIdx + 1
  /\ UNCHANGED <<env, disk, pc, pool, loaded, characters_to_process, batches,
                 next, remoteCalled, sorted_descriptions, checkpointWrites,
                 finalWrites>>

\* generate_parallel, line 168: open(descriptions_path, "w") truncates.
CheckpointOpen ==
  /\ pc = "merge"
  /\ mergeIdx = Len(batches) + 1
  /\ disk' = Truncated
  /\ pc' = "checkpoint"
  /\ UNCHANGED <<env, pool, run>>

\* (mutant) the checkpoint is dumped a second time before returning.
CheckpointDump_Twice ==
  /\ pc = "checkpoint"
  /\ disk' = Valid(descriptions)
  /\ checkpointWrites' = checkpointWrites + 1
  /\ pc' = IF checkpointWrites = 0 THEN "checkpoint" ELSE "sort"
  /\ UNCHANGED <<env, pool, loaded, descriptions, characters_to_process,
                 batches, next, mergeIdx, remoteCalled, warnings,
                 sorted_descriptions, finalWrites>>

\* generate_parallel, lines 169-172: json.dump, close, return descriptions.
CheckpointDump ==
  /\ pc = "checkpoint"
  /\ disk' = Valid(descriptions)
  /\ checkpointWrites' = checkpointWrites + 1
  /\ pc' = "sort"
  /\ UNCHANGED <<env, pool, loaded, descriptions, characters_to_process,
                 batches, next, mergeIdx, remoteCalled, warnings,
                 sorted_descriptions, finalWrites>>

\* save_sorted_descriptions, lines 177-179: sort, open(descriptions_path, "w").
FinalOpen ==
  /\ pc = "sort"
  /\ sorted_descriptions' = SortedItems(descriptions)
  /\ disk' = Truncated
  /\ pc' = "final"
  /\ UNCHANGED <<env, pool, loaded, descriptions, characters_to_process,
                 batches, next, mergeIdx, remoteCalled, warnings,
                 checkpointWrites, finalWrites>>

\* save_sorted_descriptions, lines 180-182: json.dump of the sorted dict.
FinalDump ==
  /\ pc = "final"
  /\ disk' = Valid(DictOf(sorted_descriptions))
  /\ finalWrites' = finalWrites + 1
  /\ pc' = "done"
  /\ UNCHANGED <<env, pool, loaded, descriptions, characters_to_process,
                 batches, next, mergeIdx, remoteCalled, warnings,
                 sorted_descriptions, checkpointWrites>>

\* -------------------------------------------------------- worker threads
\* Everything of the run that a worker thread does not touch.
mainVars == <<env, disk, pc, loaded, descriptions, characters_to_process,
              batches, next, mergeIdx, warnings, sorted_descriptions,
              checkpointWrites, finalWrites>>

\* A pool thread takes the oldest queued work item (the work queue is FIFO)
\* and calls process_batch, which enters generate_descriptions_batch.
WorkerStart(b) ==
  /\ pc \in {"collect", "unwind"}
  /\ status[b] = "queued"
  /\ \A j \in BatchIds : j < b => status[j] # "queued"
  /\ WorkerFree
  /\ status' = [status EXCEPT ![b] = "running"]
  /\ starts' = [starts EXCEPT ![b] = @ + 1]
  /\ UNCHANGED <<mainVars, attempt, waits, results, finished, remoteCalled>>

\* One attempt of generate_descriptions_batch whose response validates: the
\* retry wrapper returns it, process_batch builds its result and the future
\* completes.
AttemptSucceeds(b, resp) ==
  /\ pc \in {"collect", "unwind"}
  /\ status[b] = "running"
  /\ remoteCalled' = TRUE
  /\ results' = [results EXCEPT ![b] = ProcessBatchResult(resp)]
  /\ status' = [status EXCEPT ![b] = "done"]
  /\ attempt' = [attempt EXCEPT ![b] = 0]
  /\ waits' = [waits EXCEPT ![b] = <<>>]
  /\ finished' = Append(finished, b)
  /\ UNCHANGED <<mainVars, starts>>

\* One attempt that raises (network error, rate limit, response that does not
\* validate): tenacity stops with RetryError, which process_batch lets
\* through to the future, or sleeps before the next attempt.
AttemptFails(b) ==
  /\ pc \in {"collect", "unwind"}
  /\ status[b] = "running"
  /\ remoteCalled' = TRUE
  /\ IF StopAfterAttempt(attempt[b] + 1)
     THEN /\ status' = [status EXCEPT ![b] = "failed"]
          /\ attempt' = [attempt EXCEPT ![b] = 0]
          /\ waits' = [waits EXCEPT ![b] = <<>>]
          /\ finished' = Append(finished, b)
     ELSE /\ status' = [status EXCEPT ![b] = "sleeping"]
          /\ attempt' = [attempt EXCEPT ![b] = @ + 1]
          /\ waits' = [waits EXCEPT ![b] = Append(@, WaitExponential(attempt[b] + 1))]
          /\ UNCHANGED finished
  /\ UNCHANGED <<mainVars, results, starts>>

\* The backoff sleep ends and the next attempt begins.
WakeUp(b) ==
  /\ pc \in {"collect", "unwind"}
  /\ status[b] = "sleeping"
  /\ status' = [status EXCEPT ![b] = "running"]
  /\ UNCHANGED <<mainVars, attempt, waits, results, starts, finished,
                 remoteCalled>>

\* ---------------------------------------------------------- environment
\* The process is terminated externally; only the file survives.
Kill ==
  /\ pc \notin Terminal
  /\ pc \notin {"idle"}
  /\ pc' = "killed"
  /\ ResetMemory
  /\ UNCHANGED <<env, disk>>

\* The file as the next run finds it: the same content, every text of which
\* is now a text that was there when the run started.
AsStored(d) ==
  [kind |-> d.kind, content |-> [k \in DOMAIN d.content |-> StoredText]]

\* The program is started again on the same catalog and store.
NewRun ==
  /\ pc \in Terminal
  /\ pc' = "idle"
  /\ ResetMemory
  /\ disk' = AsStored(disk)
  /\ UNCHANGED env

WorkerStarts == \E b \in BatchIds : WorkerStart(b)
FetchSucceeds ==
  \E b \in BatchIds : \E resp \in Responses(b) : AttemptSucceeds(b, resp)
FetchAttemptFails == \E b \in BatchIds : AttemptFails(b)
BackoffEnds == \E b \in BatchIds : WakeUp(b)

Next ==
  \/ MainStartup
  \/ LoadAndFilter
  \/ Dispatch
  \/ Collect
  \/ ExecutorExit
  \/ ExecutorExitRaising
  \/ MergeStep
  \/ CheckpointOpen
  \/ CheckpointDump
  \/ FinalOpen
  \/ FinalDump
  \/ WorkerStarts
  \/ FetchSucceeds
  \/ FetchAttemptFails
  \/ BackoffEnds
  \/ Kill
  \/ NewRun

Spec == Init /\ [][Next]_vars

TypeOK ==
  /\ pc \in Terminal \cup {"idle", "load", "dispatch", "collect", "unwind",
                           "merge", "checkpoint", "sort", "final"}
  /\ disk \in {Absent, Truncated} \cup {Valid(m) : m \in Maps}
  /\ descriptions \in Maps

\* ================================================================ claims
\* The codepoints of batch b.
Codes(b) == Range(batches[b].batch)
\* The keys of the result of batch b.
Keys(b) == DOMAIN results[b]
\* The run is past LoadAndFilter and its memory has not been discarded.
RunLoaded == pc \in {"nothing_to_do", "dispatch", "collect", "unwind", "merge",
                     "checkpoint", "sort", "final", "done"}
                \/ (pc = "raised" /\ batches # <<>>)
\* The merge loop has run to its end.
Merged == pc \in {"checkpoint", "sort", "final", "done"}
            \/ (pc = "merge" /\ mergeIdx = Len(batches) + 1)

\* The map that merging the results of batches 1..n, batch k left out, into d
\* gives.
RECURSIVE MergeExcept(_, _, _)
MergeExcept(d, n, k) ==
  IF n = 0 THEN d
  ELSE IF n = k THEN MergeExcept(d, n - 1, k)
  ELSE Update(MergeExcept(d, n - 1, k), results[n])

\* ---------------------------------------------------------------- C1
\* C1 (as claimed): when the run has ended with the fetch of one batch k
\* failed on all its attempts and the fetch of every other batch (there is
\* one) succeeded,
\* the run has returned and checkpointed the loaded map merged with the
\* results of all batches but k.
C1_PartialFailureIsolation ==
  \A k \in BatchIds :
    ( /\ pc \in {"raised", "done"}
      /\ status[k] = "failed"
      /\ BatchIds # {k}
      /\ \A j \in BatchIds \ {k} : status[j] = "done" )
    => ( /\ pc = "done"
         /\ checkpointWrites = 1
         /\ descriptions = MergeExcept(loaded, Len(batches), k)
         /\ disk = Valid(descriptions) )

\* ---------------------------------------------------------------- C2
\* C2 (as claimed): a run that passed the startup checks, had pending work
\* and was not killed never ends otherwise than Done, with the checkpoint and
\* the sorted store written, whichever batch fetches exhausted their retries.
C2_BatchFailureNeverAborts ==
  (pc \in Terminal /\ batches # <<>>)
    => (pc = "done" /\ checkpointWrites = 1 /\ finalWrites = 1)

\* ---------------------------------------------------------------- C3
\* C3: no record whose codepoint is a key of the loaded map is in the pending
\* list or in any batch handed to the pool.
C3_NoDuplicateWork ==
  /\ \A i \in DOMAIN characters_to_process :
       characters_to_process[i] \notin DOMAIN loaded
  /\ \A b \in BatchIds : Codes(b) \cap DOMAIN loaded = {}

\* C3's case: part of the catalog is already described, the rest has been
\* dispatched and a worker has taken a batch.
C3_Witness ==
  /\ \E i \in DOMAIN catalog : catalog[i] \in DOMAIN loaded
  /\ \E b \in BatchIds : starts[b] = 1

\* ---------------------------------------------------------------- C4
\* The store loaded by the run has a key for every catalog codepoint.
StoreComplete == \A i \in DOMAIN catalog : catalog[i] \in DOMAIN loaded

\* A run that loaded a complete store ends at "All characters already have
\* descriptions" with no batch, no remote call, no write and the file it loaded.
C4_NothingToDo ==
  (RunLoaded /\ StoreComplete)
    => /\ pc = "nothing_to_do"
       /\ batches = <<>> /\ status = <<>>
       /\ ~remoteCalled
       /\ checkpointWrites = 0 /\ finalWrites = 0
       /\ disk = Valid(loaded)
\* Starting the program again after such a run finds the file as it was.
C4_RerunKeepsStore ==
  (pc = "nothing_to_do" /\ pc' = "idle") => disk' = disk

\* C4: a run that loaded a store with a key for every catalog codepoint ends
\* at "All characters already have descriptions": it creates no batch, makes
\* no remote call and writes nothing, so the file is the valid file it loaded;
\* and starting the program again leaves that file as it is, so the same
\* holds of every later run.
C4_IdempotentResumption == [](C4_NothingToDo) /\ [][C4_RerunKeepsStore]_vars

\* C4's case: a run on a catalog of several records, all of them described
\* in the store, has ended.
C4_Witness ==
  /\ pc = "nothing_to_do"
  /\ Len(catalog) >= 2
  /\ StoreComplete

\* ---------------------------------------------------------------- C5
\* C5 (as claimed): every entry of the loaded map is in the map of the run
\* with the same description, whatever the remote answered.
C5_LoadedEntriesNeverOverwritten ==
  RunLoaded =>
    \A k \in DOMAIN loaded :
      k \in DOMAIN descriptions /\ descriptions[k] = loaded[k]

\* Every response so far named only codepoints of its own batch.
ResponsesOnBatch == \A b \in BatchIds : Keys(b) \subseteq Codes(b)

\* C5 (amended): no entry of the loaded map is ever removed; its description
\* is the loaded one unless the result of a batch already merged has that
\* codepoint as a key; so if every response names only codepoints of its own
\* batch, every loaded entry is unchanged.
C5_MapOnlyGrows ==
  RunLoaded =>
    /\ \A k \in DOMAIN loaded :
         /\ k \in DOMAIN descriptions
         /\ descriptions[k] # loaded[k]
              => \E b \in BatchIds : b < mergeIdx /\ k \in Keys(b)
    /\ ResponsesOnBatch =>
         \A k \in DOMAIN loaded : descriptions[k] = loaded[k]

\* C5's case: a run that loaded a non-empty map has merged a non-empty result
\* and every loaded entry is as it was.
C5_Witness ==
  /\ Merged
  /\ loaded # EmptyMap
  /\ \E b \in BatchIds : Keys(b) # {}
  /\ descriptions # loaded
  /\ \A k \in DOMAIN loaded : descriptions[k] = loaded[k]

\* ---------------------------------------------------------------- C6
\* C6 (as claimed): the results of two distinct batches have no key in common.
C6_ResultKeysDisjoint ==
  \A b1, b2 \in BatchIds : b1 # b2 => Keys(b1) \cap Keys(b2) = {}

\* No two records of the catalog have the same codepoint.
CatalogUnique ==
  \A i, j \in DOMAIN catalog : catalog[i] = catalog[j] => i = j

\* C6 (amended): when the catalog's codepoints are unique, two distinct
\* batches have no codepoint in common, and the results of two batches whose
\* responses name only codepoints of their own batch have no key in common.
C6_BatchCodesDisjoint ==
  CatalogUnique =>
    \A b1, b2 \in BatchIds :
      b1 # b2 =>
        /\ Codes(b1) \cap Codes(b2) = {}
        /\ (Keys(b1) \subseteq Codes(b1) /\ Keys(b2) \subseteq Codes(b2))
             => Keys(b1) \cap Keys(b2) = {}

\* C6's case: two batches of a catalog without duplicates have both returned
\* a non-empty result on their own codepoints.
C6_Witness ==
  /\ CatalogUnique
  /\ Len(batches) = 2
  /\ \A b \in BatchIds :
       status[b] = "done" /\ Keys(b) # {} /\ Keys(b) \subseteq Codes(b)

\* ---------------------------------------------------------------- C7
\* C7: while a batch is queued, running or sleeping, the main thread is inside
\* the with block and the map is the loaded one; whenever the main thread is
\* in or past the merge loop, every dispatched batch has completed.
C7_JoinBeforeMerge ==
  /\ (\E b \in BatchIds : ~Completed(b))
       => (pc \in {"collect", "unwind"} /\ descriptions = loaded)
  /\ (pc \in {"merge", "checkpoint", "sort", "final", "done"})
       => \A b \in BatchIds : status[b] = "done"

\* C7's case: the merge loop has changed the map after two batches ran.
C7_Witness ==
  /\ pc = "merge"
  /\ Len(batches) = 2
  /\ descriptions # loaded

\* ---------------------------------------------------------------- C8
\* C8: at most max_workers batches are in flight (running a fetch or sleeping
\* in a backoff wait); every batch has exactly one future, no batch is taken
\* by a worker twice, and in a run that reaches the merge every batch was
\* taken exactly once.
C8_BoundedParallelism ==
  /\ Cardinality(InFlight) <= max_workers
  /\ DOMAIN status = DOMAIN batches
  /\ \A b \in BatchIds :
       /\ starts[b] <= 1
       /\ (status[b] \in {"running", "sleeping", "done", "failed"}) = (starts[b] = 1)
  /\ Merged => \A b \in BatchIds : starts[b] = 1

\* C8's case: the pool is full, one of its workers sleeps in a backoff wait
\* and a batch is waiting in the queue.
C8_Witness ==
  /\ Cardinality(InFlight) = max_workers
  /\ \E b \in BatchIds : status[b] = "sleeping"
  /\ \E b \in BatchIds : status[b] = "queued"

\* ---------------------------------------------------------------- C9
\* What one step may do to the fetch of batch b (attempt[b] + 1 is the number
\* of the attempt the step makes).
C9_Step(b) ==
  /\ (status'[b] = "done" /\ status[b] # "done")
       => (status[b] = "running" /\ attempt[b] + 1 \in 1..MaxAttempts)
  /\ (status'[b] = "failed" /\ status[b] # "failed")
       => /\ status[b] = "running"
          /\ attempt[b] + 1 = MaxAttempts
          /\ results'[b] = EmptyMap
  /\ (status[b] = "running" /\ status'[b] = "sleeping")
       => (attempt'[b] = attempt[b] + 1 /\ attempt'[b] < MaxAttempts)
  /\ (status[b] = "running" /\ attempt[b] + 1 < MaxAttempts)
       => status'[b] # "failed"
  /\ (status[b] \in {"done", "failed"})
       => (status'[b] = status[b] /\ results'[b] = results[b])

\* C9: one invocation of generate_descriptions_batch makes between 1 and
\* MaxAttempts remote calls: it returns on the first attempt that succeeds,
\* which is one of the first MaxAttempts; an attempt that fails is followed by
\* another one unless it was the MaxAttempts-th, and then the failure is
\* raised (the future fails, no result is stored for the batch); a fetch that
\* has returned or raised makes no further call.
C9_BoundedRetry ==
  [][\A b \in DOMAIN status : b \in DOMAIN status' => C9_Step(b)]_vars

\* C9's case: in one run a fetch has failed on all its attempts and another
\* has returned.
C9_Witness ==
  /\ \E b \in BatchIds : status[b] = "failed"
  /\ \E b \in BatchIds : status[b] = "done"

\* ---------------------------------------------------------------- C10
\* The wait the claim gives for the n-th failed attempt.
ClaimedWait(n) == Min(60, 2 * 2 ^ (n - 1))

\* C10 (as claimed): the n-th wait of a fetch is min(60, 2 * 2^(n-1)) seconds.
C10_ClaimedSchedule ==
  \A b \in BatchIds : \A n \in DOMAIN waits[b] : waits[b][n] = ClaimedWait(n)

\* C10 (amended): the waits of a fetch are the first of 2, 2, 4, 8 seconds
\* (max(2, min(60, 2^(n-1))) after the n-th failed attempt, n = 1..4): every
\* wait lies in [2, 60] and the sequence is non-decreasing.
C10_BackoffSchedule ==
  \A b \in BatchIds :
    /\ Len(waits[b]) <= MaxAttempts - 1
    /\ waits[b] = SubSeq(<<2, 2, 4, 8>>, 1, Len(waits[b]))
    /\ \A n \in DOMAIN waits[b] :
         /\ waits[b][n] >= 2 /\ waits[b][n] <= 60
         /\ n > 1 => waits[b][n - 1] <= waits[b][n]

\* C10's case: a fetch has slept after each of four failed attempts.
C10_Witness == \E b \in BatchIds : waits[b] = <<2, 2, 4, 8>>

\* ---------------------------------------------------------------- C11
\* The number a codepoint string denotes in base 16.
RECURSIVE HexValue(_)
HexValue(cp) ==
  IF cp = <<>> THEN 0
  ELSE 16 * HexValue(SubSeq(cp, 1, Len(cp) - 1)) + cp[Len(cp)]

\* The keys of the items written by save_sorted_descriptions, in file order.
WrittenKeys == [i \in DOMAIN sorted_descriptions |-> sorted_descriptions[i][1]]

\* The written items are the entries of the input map, each once.
C11_SameEntries ==
  /\ Len(sorted_descriptions) = Cardinality(DOMAIN descriptions)
  /\ DictOf(sorted_descriptions) = descriptions

\* The written keys ascend strictly as strings.
C11_LexAscending ==
  \A i \in DOMAIN WrittenKeys :
    i > 1 => LexLess(WrittenKeys[i - 1], WrittenKeys[i])

\* The written keys ascend strictly as hexadecimal numbers.
C11_NumericAscending ==
  \A i \in DOMAIN WrittenKeys :
    i > 1 => HexValue(WrittenKeys[i - 1]) < HexValue(WrittenKeys[i])

\* C11 (as claimed): the store written by save_sorted_descriptions has the
\* entries of the input map, its keys strictly ascending as strings and, for
\* every key set, also as hexadecimal numbers.
C11_SortMatchesNumericOrder ==
  pc \in {"final", "done"} =>
    C11_SameEntries /\ C11_LexAscending /\ C11_NumericAscending

\* C11 (amended): the store written by save_sorted_descriptions has the
\* entries of the input map, its keys strictly ascending as strings; the
\* order is also the ascending numeric order when all the keys have the same
\* number of digits.
C11_SortInvariant ==
  pc \in {"final", "done"} =>
    /\ C11_SameEntries
    /\ C11_LexAscending
    /\ (\A i, j \in DOMAIN WrittenKeys :
          Len(WrittenKeys[i]) = Len(WrittenKeys[j])) => C11_NumericAscending
    /\ pc = "done" => disk = Valid(descriptions)

\* C11's case: the final store has been written with keys of four and of five
\* digits, the five-digit one first.
C11_Witness ==
  /\ pc = "done"
  /\ \E i, j \in DOMAIN WrittenKeys :
       i < j /\ Len(WrittenKeys[i]) = 5 /\ Len(WrittenKeys[j]) = 4

\* ---------------------------------------------------------------- C12
\* The run has made no remote call and no write, and no fetch was submitted.
C12_NoSideEffect ==
  /\ ~remoteCalled
  /\ checkpointWrites = 0 /\ finalWrites = 0
  /\ status = <<>> /\ sorted_descriptions = <<>>

\* C12: when the credential is absent or the catalog file is absent, main
\* returns from its startup checks (with the credential absent at the
\* credential check, whatever the catalog): no step of the run makes a remote
\* call or a write, and every step leaves the store as it was.
C12_FatalStartup ==
  [][(~hasKey \/ ~catalogExists) =>
       /\ pc' \in {"idle", "no_key", "no_catalog"}
       /\ (~hasKey => pc' # "no_catalog")
       /\ disk' = disk
       /\ C12_NoSideEffect']_vars

\* C12's case: main has returned at a startup check, the credential or the
\* catalog file absent, with a store of some entries on disk.
C12_Witness ==
  /\ pc \in {"no_key", "no_catalog"}
  /\ ~hasKey \/ ~catalogExists
  /\ disk.kind = "valid" /\ disk.content # EmptyMap

\* ---------------------------------------------------------------- C13
\* C13 (as claimed): when the process has been killed, at any point of the
\* checkpoint write or of the final write included, descriptions.json is as
\* it was before the write or holds the complete new mapping: it is never a
\* truncated or empty file.
C13_CrashSafeCheckpoint ==
  pc = "killed" => disk.kind \in {"absent", "valid"}

\* ---------------------------------------------------------------- C14
\* The run is in generate_parallel and its merge loop has not ended.
C14_Processing ==
  \/ pc \in {"dispatch", "collect", "unwind"}
  \/ pc = "merge" /\ mergeIdx \in BatchIds

\* C14: while the run is processing (batches queued, in flight or being
\* merged) descriptions.json is the store that was loaded at start, holding
\* no result of a batch, and no step taken from such a state, the external
\* termination of the process included, changes the file.
C14_NoPartialPersistence ==
  /\ [](C14_Processing =>
          /\ disk \in {Absent, Valid(loaded)}
          /\ disk.content = loaded
          /\ checkpointWrites = 0 /\ finalWrites = 0)
  /\ [][C14_Processing => disk' = disk]_vars

\* C14's case: a batch has finished with entries that are not in the file
\* while another batch is still in flight.
C14_Witness ==
  /\ pc = "collect"
  /\ \E b \in BatchIds : status[b] \in {"running", "sleeping"}
  /\ \E b \in BatchIds :
       /\ status[b] = "done"
       /\ \E k \in Keys(b) : k \notin DOMAIN disk.content

\* ---------------------------------------------------------------- C15
\* Every fetch has returned exactly one description for each codepoint of its
\* batch and for no other codepoint.
C15_HappyPath ==
  /\ CatalogUnique
  /\ \A b \in BatchIds : status[b] = "done" /\ Keys(b) = Codes(b)

\* C15: when the catalog's codepoints are unique and every fetch returned
\* exactly the codepoints of its batch, the final store's keys are the loaded
\* keys and all the catalog's codepoints, every loaded entry is unchanged, and
\* ceil(pending / batch_size) batches were dispatched.
C15_HappyPathComplete ==
  (pc = "done" /\ C15_HappyPath) =>
    /\ disk.kind = "valid"
    /\ DOMAIN disk.content = DOMAIN loaded \cup Range(catalog)
    /\ \A k \in DOMAIN loaded : disk.content[k] = loaded[k]
    /\ \A k \in DOMAIN disk.content \ DOMAIN loaded :
         \E b \in BatchIds : k \in Codes(b) /\ disk.content[k] = results[b][k]
    /\ Len(batches) * BatchSize >= Len(characters_to_process)
    /\ (Len(batches) - 1) * BatchSize < Len(characters_to_process)
    /\ \A b \in BatchIds : starts[b] = 1

\* C15's case: a run with more pending records than one batch holds, the
\* last batch a short one, has ended with every fetch answering for exactly
\* its batch.
C15_Witness ==
  /\ pc = "done" /\ C15_HappyPath
  /\ Len(characters_to_process) > BatchSize
  /\ Len(characters_to_process) % BatchSize # 0

\* A second case of C15: the loaded store had an entry, for a record of the
\* catalog, and the run added the others.
C15_WitnessLoaded ==
  /\ pc = "done" /\ C15_HappyPath
  /\ \E k \in DOMAIN loaded : k \in Range(catalog)
  /\ DOMAIN disk.content # DOMAIN loaded

\* ---------------------------------------------------------------- C16
\* The batches of p, the first n of them, one after the other.
RECURSIVE Concat(_, _)
Concat(p, n) == IF n = 0 THEN <<>> ELSE Concat(p, n - 1) \o p[n].batch

\* p is a partition of chars into slices of bs records: tagged 0, bs, 2 bs,
\* ..., each of bs records but the last, which has 1..bs, and together the
\* list itself.
C16_IsPartition(p, chars, bs) ==
  /\ \A j \in DOMAIN p :
       /\ p[j].index = (j - 1) * bs
       /\ Len(p[j].batch) \in 1..bs
       /\ j < Len(p) => Len(p[j].batch) = bs
       /\ \A i \in DOMAIN p[j].batch : p[j].batch[i] = chars[p[j].index + i]
  /\ Concat(p, Len(p)) = chars

\* The positions of the catalog whose record is not described in the store.
C16_PendingPositions == {i \in DOMAIN catalog : catalog[i] \notin DOMAIN loaded}

\* The pending list is the not yet described records in catalog order.
C16_PendingInCatalogOrder ==
  \E f \in [DOMAIN characters_to_process -> C16_PendingPositions] :
    /\ \A i, j \in DOMAIN f : i < j => f[i] < f[j]
    /\ {f[i] : i \in DOMAIN f} = C16_PendingPositions
    /\ \A i \in DOMAIN f : characters_to_process[i] = catalog[f[i]]

\* generate_parallel has built its batches.
C16_Partitioned ==
  \/ pc \in {"collect", "unwind", "merge", "checkpoint", "sort", "final", "done"}
  \/ pc = "raised" /\ batches # <<>>

\* C16: the pending list is the undescribed records in catalog order; the
\* batches generate_parallel built are contiguous slices of it tagged with
\* their starting index 0, batch_size, 2 batch_size, ..., all of batch_size
\* records except possibly the last (1..batch_size), whose concatenation is
\* the pending list; and the same holds of the partition of the pending list
\* for every batch_size from 1 to one more than the longest catalog.
C16_PartitionCorrect ==
  /\ RunLoaded => C16_PendingInCatalogOrder
  /\ RunLoaded =>
       \A bs \in 1..(MaxCat + 1) :
         C16_IsPartition(Partition(characters_to_process, bs),
                         characters_to_process, bs)
  /\ C16_Partitioned =>
       C16_IsPartition(batches, characters_to_process, BatchSize)

\* C16's case: the pending records were cut into a full batch tagged 0 and a
\* short last batch tagged batch_size.
C16_Witness ==
  /\ C16_Partitioned
  /\ Len(batches) = 2
  /\ Len(batches[1].batch) = BatchSize
  /\ Len(batches[2].batch) < BatchSize
  /\ batches[2].index = BatchSize

\* ---------------------------------------------------------------- C17
\* C17: the merged map is fixed by the loaded map and the results of the
\* batches alone: after each iteration of the merge loop it is the loaded map
\* updated with the results of the batches in batch order, whatever the order
\* in which the workers completed them, results with a common key included.
C17_MergeOrderIndependent ==
  /\ pc = "merge" => descriptions = MergeExcept(loaded, mergeIdx - 1, 0)
  /\ Merged => descriptions = MergeExcept(loaded, Len(batches), 0)

\* C17's case: the second batch completed before the first, their results
\* give different descriptions for the same key, and the merge has ended.
C17_Witness ==
  /\ Merged
  /\ finished = <<2, 1>>
  /\ \E k \in Keys(1) \cap Keys(2) : results[1][k] # results[2][k]

\* ---------------------------------------------------------------- C18
\* The positions of main in program order: Idle is before the load,
\* Processing from the dispatch to the final write, then Done.
C18_Order == <<"idle", "load", "dispatch", "collect", "unwind", "merge",
               "checkpoint", "sort", "final", "done">>
\* The place of position p in the run; a run that has ended otherwise than
\* in Done is past every position.
C18_Rank(p) ==
  IF p \in Range(C18_Order)
  THEN CHOOSE i \in DOMAIN C18_Order : C18_Order[i] = p
  ELSE Len(C18_Order) + 1

\* What holds of the writes and of the batches at every point of a run.
C18_State ==
  /\ checkpointWrites <= 1 /\ finalWrites <= checkpointWrites
  /\ (checkpointWrites = 1) = (pc \in {"sort", "final", "done"})
  /\ (finalWrites = 1) = (pc = "done")
  /\ \A b \in BatchIds : starts[b] <= 1
  /\ pc \in {"checkpoint", "sort", "final", "done"} =>
       \A b \in BatchIds : status[b] = "done" /\ starts[b] = 1

\* What holds of every step of a run: main never moves to an earlier
\* position, a batch handed to a worker is never queued again, and a write
\* is counted only by the dump it belongs to.
C18_Step ==
  /\ (pc' # pc /\ pc' # "idle") => C18_Rank(pc) < C18_Rank(pc')
  /\ pc' = "idle" => (pc = "idle" \/ pc \in Terminal)
  /\ \A b \in BatchIds \cap DOMAIN status' :
       /\ starts'[b] >= starts[b]
       /\ (status[b] # "queued" /\ pc' # "idle") => status'[b] # "queued"
  /\ checkpointWrites' > checkpointWrites =>
       /\ pc = "checkpoint" /\ pc' = "sort"
       /\ \A b \in BatchIds : status[b] = "done"
  /\ finalWrites' > finalWrites =>
       pc = "final" /\ pc' = "done" /\ checkpointWrites = 1

\* C18: a run never returns to an earlier position (Idle, Processing, Done in
\* that order; it starts anew only as a new process after it has ended); each
\* batch is handed to a worker at most once, exactly once in a run that
\* writes; the checkpoint is written at most once, only when every batch has
\* completed, and exactly once in a run that reaches Done; the final write
\* happens at most once, after the checkpoint write, and exactly once in a
\* run that reaches Done.
C18_RunOrdering == [](C18_State) /\ [][C18_Step]_vars

\* C18's case: a run of two batches has reached Done, each batch started
\* once, both writes made.
C18_Witness ==
  /\ pc = "done"
  /\ Len(batches) = 2
  /\ checkpointWrites = 1 /\ finalWrites = 1

\* ---------------------------------------------------------------- C19
\* The run has ended after generate_parallel built its batches.
C19_RunEnded == pc = "done" \/ (pc = "raised" /\ batches # <<>>)

\* The starting indices of the batches that gave no entry: the fetch returned
\* zero descriptions, or it failed on all its attempts.
C19_EmptyBatches ==
  {batches[b].index : b \in {j \in BatchIds :
       \/ status[j] = "failed"
       \/ status[j] = "done" /\ results[j] = EmptyMap}}

\* C19 (as claimed): at the end of a run a warning has been emitted for
\* exactly the batches whose result is empty, a batch whose fetch exhausted
\* its retries being one of them.
C19_EmptyBatchDiagnostics == C19_RunEnded => warnings = C19_EmptyBatches

\* ---------------------------------------------------------------- C20
\* The exception of a batch has reached the result collection of
\* generate_parallel.
C20_Raised == pc = "unwind" \/ (pc = "raised" /\ batches # <<>>)

\* C20: once the exception of a batch has reached the result collection, the
\* run can only end with it: nothing is merged, neither the checkpoint write
\* nor the final write is made, and descriptions.json stays the store that
\* was loaded, without the result of any batch that succeeded.
C20_AllOrNothingOnError ==
  /\ [](C20_Raised =>
          /\ checkpointWrites = 0 /\ finalWrites = 0
          /\ descriptions = loaded
          /\ disk \in {Absent, Valid(loaded)}
          /\ disk.content = loaded)
  /\ [][pc = "unwind" =>
          /\ pc' \in {"unwind", "raised", "killed"}
          /\ disk' = disk]_vars

\* C20's case: the run has ended with the exception of one batch while
\* another batch had succeeded with an entry that is not in the file.
C20_Witness ==
  /\ pc = "raised"
  /\ \E b \in BatchIds : status[b] = "failed"
  /\ \E b \in BatchIds :
       /\ status[b] = "done"
       /\ \E k \in Keys(b) : k \notin DOMAIN disk.content
====
